---- MODULE Spec2Model ----
(***************************************************************************)
(* Trust Score Protocol (TSP-1.0): the TrustScore controller, the score    *)
(* calculator, the dimension scoring, the hash chain and the credential    *)
(* issuer / verifier.                                                      *)
(*                                                                         *)
(* Numbers.  A JavaScript number n is modelled by the integer n * One      *)
(* (fixed point, six decimals).  The input pools are chosen so that every  *)
(* quotient and product of the scoring formulas is exact in that unit.     *)
(* Counts (evidence_count, total_traces, ...) are plain integers.          *)
(* Arithmetic is that of the reals: the rounding of IEEE doubles, which    *)
(* moves a sum by about 1e-16, is not modelled.                            *)
(*                                                                         *)
(* Strings.  A string whose content the types or the clock fix (a          *)
(* dimension name, a level, an ISO timestamp, a number as text) is an atom *)
(* or the number itself, and a template or a join of such strings is the   *)
(* tuple of its parts.  A source_id is free text: it is a sequence of      *)
(* pieces, and the serialized evidence list is the flat sequence of the    *)
(* pieces and delimiters the code concatenates, so that two evidence lists *)
(* with the same text have the same payload.  sha256 is an injective       *)
(* constructor (no collisions).  An ISO timestamp is the clock reading (in *)
(* hours) it was formatted from.                                           *)
(***************************************************************************)
EXTENDS Integers, Sequences, FiniteSets, TLC

VARIABLES entity_id, entity_type, evidence_sources, clearpath_summary,
          cognitive_profile, consent_record, harm_record, history, clock, ret

vars == <<entity_id, entity_type, evidence_sources, clearpath_summary,
          cognitive_profile, consent_record, harm_record, history, clock, ret>>

state == <<evidence_sources, clearpath_summary, cognitive_profile,
           consent_record, harm_record, history>>

-----------------------------------------------------------------------------
(* Bounds of the model *)

MaxHistory == 2

MaxEvidence == 2

MaxClock == 25

TickHours == 25

-----------------------------------------------------------------------------
(* Fixed point and small helpers *)

One == 1000000

Null == [null |-> TRUE]

Min(a, b) == IF a <= b THEN a ELSE b

Max(a, b) == IF a >= b THEN a ELSE b

\* x * (pct / 100) for a constant factor written in hundredths
MulPct(x, pct) == (x * pct) \div 100

\* a / b for two counts, as a fixed-point number
Ratio(a, b) == (a * One) \div b

Last(s) == s[Len(s)]

\* lexicographic "less than" on integer tuples of equal length: the order of
\* Array.prototype.sort on the serialized entries
LexLess(a, b) ==
    \E i \in 1..Len(a) : a[i] < b[i] /\ \A j \in 1..(i - 1) : a[j] = b[j]

-----------------------------------------------------------------------------
(* types.ts *)

schema == "TSP-1.0"

ALL_DIMENSIONS ==
    <<"accuracy", "consistency", "transparency", "consent_compliance",
      "harm_record", "bias_awareness", "calibration", "scope_adherence">>

TrustDimension == {ALL_DIMENSIONS[i] : i \in 1..Len(ALL_DIMENSIONS)}

TrustLevel ==
    {"untrusted", "provisional", "basic", "established", "high", "exemplary"}

DimensionTrend == {"improving", "stable", "declining"}

EntityType == {"agent", "human", "system"}

-----------------------------------------------------------------------------
(* dimensions.ts *)

TREND_THRESHOLD == 50000

computeOneDimension(dim, clearpath, cognitive, consent, harm) ==
    CASE dim = "accuracy" ->
           IF clearpath = Null THEN One \div 2
           ELSE LET total == IF clearpath.total_traces = 0 THEN 1
                             ELSE clearpath.total_traces
                    passRate == One - Ratio(clearpath.verification_failures, total)
                    cal == IF cognitive = Null THEN One \div 2
                           ELSE cognitive.calibration
                IN  MulPct(passRate, 60) + MulPct(cal, 40)
      [] dim = "consistency" ->
           IF cognitive = Null THEN One \div 2
           ELSE Max(0, Min(One, cognitive.consistency))
      [] dim = "transparency" ->
           IF clearpath = Null THEN One \div 2
           ELSE LET assumeRatio == Min(One, clearpath.assumption_ratio)
                    altAvg == clearpath.alternatives_considered_avg \div 5
                IN  MulPct(assumeRatio, 50) + MulPct(Min(One, altAvg), 50)
      [] dim = "consent_compliance" ->
           IF consent = Null THEN One \div 2
           ELSE LET total == IF consent.total_actions = 0 THEN 1
                             ELSE consent.total_actions
                    withinBounds == One - Ratio(consent.violations, total)
                    noCreep == IF consent.scope_creep_detected
                               THEN MulPct(One, 70) ELSE One
                IN  MulPct(withinBounds, 70) + MulPct(noCreep, 30)
      [] dim = "harm_record" ->
           IF harm = Null THEN One \div 2
           ELSE LET severityPenalty == harm.max_severity \div 6
                    incidentPenalty == Min(One, Ratio(harm.total_incidents, 10))
                    base == One - MulPct(severityPenalty, 50)
                                - MulPct(incidentPenalty, 30)
                    remediationBonus == MulPct(harm.remediation_rate, 30)
                IN  Max(0, Min(One, base + remediationBonus))
      [] dim = "bias_awareness" ->
           IF cognitive = Null THEN One \div 2
           ELSE IF cognitive.bias_count = 0 THEN MulPct(One, 70)
           ELSE Min(One, One \div 2 + MulPct(cognitive.growth_trajectory, 50))
      [] dim = "calibration" ->
           IF cognitive = Null THEN One \div 2
           ELSE Max(0, Min(One, cognitive.calibration))
      [] dim = "scope_adherence" ->
           IF consent = Null /\ clearpath = Null THEN One \div 2
           ELSE LET consentPart ==
                      IF consent # Null
                      THEN MulPct(IF consent.total_actions = 0 THEN One
                                  ELSE One - Ratio(consent.violations,
                                                   Max(1, consent.total_actions)),
                                  IF consent.scope_creep_detected THEN 80 ELSE 100)
                      ELSE One \div 2
                IN  consentPart
      [] OTHER -> One \div 2

\* a step function whose steps end one count early
evidenceCountToConfidence_exclusive(count) ==
    IF count = 0 THEN 0
    ELSE IF count < 5 THEN MulPct(One, 30)
    ELSE IF count < 20 THEN MulPct(One, 60)
    ELSE IF count < 50 THEN MulPct(One, 80)
    ELSE MulPct(One, 95)

evidenceCountToConfidence(count) ==
    IF count = 0 THEN 0
    ELSE IF count <= 5 THEN MulPct(One, 30)
    ELSE IF count <= 20 THEN MulPct(One, 60)
    ELSE IF count <= 50 THEN MulPct(One, 80)
    ELSE MulPct(One, 95)

RECURSIVE sumScores(_, _)
sumScores(scores, n) == IF n = 0 THEN 0 ELSE sumScores(scores, n - 1) + scores[n]

\* avg = sum / recent.length and diff = currentScore - avg are compared with the
\* threshold after multiplying through by recent.length
computeTrend(prevScore, currentScore, previousScores, dimension) ==
    LET matching == SelectSeq(previousScores, LAMBDA d : d.dimension = dimension)
        hist == [i \in 1..Len(matching) |-> matching[i].score]
        recent == SubSeq(hist, Max(1, Len(hist) - 2), Len(hist))
        diffN == currentScore * Len(recent) - sumScores(recent, Len(recent))
    IN  IF Len(hist) < 2 THEN "stable"
        ELSE IF diffN >= TREND_THRESHOLD * Len(recent) THEN "improving"
        ELSE IF diffN <= -(TREND_THRESHOLD * Len(recent)) THEN "declining"
        ELSE "stable"

\* new Map(previousScores.map(d => [d.dimension, d.score])).get(dim): the score
\* of the last entry for dim, as a one-element list, or the empty list
prevByDim(previousScores, dim) ==
    LET matching == SelectSeq(previousScores, LAMBDA d : d.dimension = dim)
    IN  IF Len(matching) = 0 THEN <<>> ELSE <<Last(matching).score>>

\* computeDimensionScores without the clamp of the score
computeDimensionScores_unclamped(clearpath, cognitive, consent, harm, evidenceCount, previousScores, now) ==
    [i \in 1..Len(ALL_DIMENSIONS) |->
        LET dim == ALL_DIMENSIONS[i]
            score == computeOneDimension(dim, clearpath, cognitive, consent, harm)
        IN  [dimension |-> dim,
             score |-> score,
             confidence |-> evidenceCountToConfidence(evidenceCount),
             evidence_count |-> evidenceCount,
             trend |-> computeTrend(prevByDim(previousScores, dim), score,
                                    previousScores, dim),
             last_updated |-> now]]

\* computeDimensionScores with an accuracy that falls back on the calibration of
\* the reasoning profile when there is no trace summary
computeDimensionScores_calibrationFallback(clearpath, cognitive, consent, harm, evidenceCount, previousScores, now) ==
    [i \in 1..Len(ALL_DIMENSIONS) |->
        LET dim == ALL_DIMENSIONS[i]
            score == IF dim = "accuracy" /\ clearpath = Null /\ cognitive # Null
                     THEN cognitive.calibration
                     ELSE computeOneDimension(dim, clearpath, cognitive, consent, harm)
        IN  [dimension |-> dim,
             score |-> Max(0, Min(One, score)),
             confidence |-> evidenceCountToConfidence(evidenceCount),
             evidence_count |-> evidenceCount,
             trend |-> computeTrend(prevByDim(previousScores, dim), score,
                                    previousScores, dim),
             last_updated |-> now]]

\* evidenceCount is the one count calculateScore stores for every dimension
computeDimensionScores(clearpath, cognitive, consent, harm, evidenceCount, previousScores, now) ==
    [i \in 1..Len(ALL_DIMENSIONS) |->
        LET dim == ALL_DIMENSIONS[i]
            score == computeOneDimension(dim, clearpath, cognitive, consent, harm)
        IN  [dimension |-> dim,
             score |-> Max(0, Min(One, score)),
             confidence |-> evidenceCountToConfidence(evidenceCount),
             evidence_count |-> evidenceCount,
             trend |-> computeTrend(prevByDim(previousScores, dim), score,
                                    previousScores, dim),
             last_updated |-> now]]

\* weights in hundredths
DIMENSION_WEIGHTS ==
    [d \in TrustDimension |->
        CASE d = "accuracy" -> 20
          [] d = "consistency" -> 10
          [] d = "transparency" -> 15
          [] d = "consent_compliance" -> 15
          [] d = "harm_record" -> 15
          [] d = "bias_awareness" -> 5
          [] d = "calibration" -> 10
          [] d = "scope_adherence" -> 10]

LEVEL_THRESHOLDS ==
    <<[level |-> "untrusted", min |-> 0],
      [level |-> "provisional", min |-> MulPct(One, 20)],
      [level |-> "basic", min |-> MulPct(One, 40)],
      [level |-> "established", min |-> MulPct(One, 60)],
      [level |-> "high", min |-> MulPct(One, 75)],
      [level |-> "exemplary", min |-> MulPct(One, 90)]>>

\* a lookup that stops at the first floor the score reaches
scoreToLevel_firstFloor(overall) ==
    LET reached == {i \in 1..Len(LEVEL_THRESHOLDS) : overall >= LEVEL_THRESHOLDS[i].min}
    IN  IF reached = {} THEN "untrusted"
        ELSE LEVEL_THRESHOLDS[CHOOSE i \in reached : \A j \in reached : i <= j].level

RECURSIVE scoreToLevelFrom(_, _, _)
scoreToLevelFrom(overall, i, result) ==
    IF i > Len(LEVEL_THRESHOLDS) THEN result
    ELSE scoreToLevelFrom(overall, i + 1,
            IF overall >= LEVEL_THRESHOLDS[i].min
            THEN LEVEL_THRESHOLDS[i].level ELSE result)

scoreToLevel(overall) == scoreToLevelFrom(overall, 1, "untrusted")

-----------------------------------------------------------------------------
(* hash.ts *)

\* SHA-256 as a collision-free digest
sha256(data) == <<"sha256", data>>

chainHash(previousHash, payload) == sha256(<<previousHash, payload>>)

\* randomBytes(16).toString('hex'): a value no earlier call returned (128 random
\* bits do not repeat); n counts the identifiers the profile holds already
generateId(n) == "id" \o ToString(n + 1)

\* Array.prototype.sort() orders the serialized entries as strings: the place of
\* a dimension name, of an evidence type and of a trend in that order
SortedDimensions ==
    <<"accuracy", "bias_awareness", "calibration", "consent_compliance",
      "consistency", "harm_record", "scope_adherence", "transparency">>

DimRank(dim) == CHOOSE i \in 1..Len(SortedDimensions) : SortedDimensions[i] = dim

TrendRank(t) == CASE t = "declining" -> 1 [] t = "improving" -> 2 [] OTHER -> 3

EvidenceTypes ==
    <<"clearpath_trace", "cognitive_ledger", "consent_ledger", "harm_trace",
      "external_attestation">>

SortedEvidenceTypes ==
    <<"clearpath_trace", "cognitive_ledger", "consent_ledger",
      "external_attestation", "harm_trace">>

TypeRank(t) == CHOOSE i \in 1..Len(SortedEvidenceTypes) : SortedEvidenceTypes[i] = t

\* the identifier "src-<n>" of an attestation, and its place among identifiers
SourceName(n) == "src-" \o ToString(n)

SourceRank(name) == CHOOSE n \in 0..(MaxEvidence + 1) : SourceName(n) = name

dimPayload(d) ==
    <<d.dimension, d.score, d.confidence, d.evidence_count, d.trend, d.last_updated>>

\* the sort key of a serialized dimension entry
dimPayloadKey(p) ==
    <<DimRank(p[1]), p[2], p[3], p[4], TrendRank(p[5]), p[6]>>

\* `${e.type}:${e.source_id}:${e.timestamp}:${e.weight}` as the text it is: a
\* sequence of pieces in which ":" and ";" are pieces like any other. A
\* source_id is free text, itself a sequence of pieces.
evidencePayload(e) ==
    <<e.type, ":">> \o e.source_id
        \o <<":", ToString(e.timestamp), ":", ToString(e.weight)>>

\* the sort key of a serialized attestation: its leading pieces
evidencePayloadKey(p) == <<TypeRank(p[1]), SourceRank(p[3])>>

\* entries.join(';') of the first n entries
RECURSIVE joinEntries(_, _)
joinEntries(entries, n) ==
    IF n = 0 THEN <<>>
    ELSE IF n = 1 THEN entries[1]
    ELSE joinEntries(entries, n - 1) \o <<";">> \o entries[n]

DomainKeys == <<"domain-a", "domain-b">>

\* Object.keys(domain_scores).sort().map(k => `${k}:${v}`)
domainPayload(domain_scores) ==
    LET keys == SelectSeq(DomainKeys, LAMBDA k : k \in DOMAIN domain_scores)
    IN  [i \in 1..Len(keys) |-> <<keys[i], domain_scores[keys[i]]>>]

recordPayload(r) ==
    LET dims == SortSeq([i \in 1..Len(r.dimensions) |-> dimPayload(r.dimensions[i])],
                        LAMBDA a, b : LexLess(dimPayloadKey(a), dimPayloadKey(b)))
        sorted == SortSeq([i \in 1..Len(r.evidence_sources) |->
                               evidencePayload(r.evidence_sources[i])],
                          LAMBDA a, b : LexLess(evidencePayloadKey(a),
                                                evidencePayloadKey(b)))
        sources == joinEntries(sorted, Len(sorted))
        domains == domainPayload(r.domain_scores)
    IN  <<r.id, r.entity_id, r.entity_type, r.overall_score, r.level, dims,
          sources, domains, r.generated_at, r.valid_until>>

-----------------------------------------------------------------------------
(* calculator.ts *)

DEFAULT_VALIDITY_HOURS == 24

\* a sum that gives every dimension the same weight
RECURSIVE weightedSum_mean(_, _)
weightedSum_mean(dimensions, n) ==
    IF n = 0 THEN 0
    ELSE weightedSum_mean(dimensions, n - 1)
         + dimensions[n].score \div Len(dimensions)

RECURSIVE weightedSum(_, _)
weightedSum(dimensions, n) ==
    IF n = 0 THEN 0
    ELSE weightedSum(dimensions, n - 1)
         + MulPct(dimensions[n].score, DIMENSION_WEIGHTS[dimensions[n].dimension])

\* id and now are the results of generateId() and of reading the clock
calculateScore(eid, etype, evidence, clearpath, cognitive, consent, harm, previousRecords, previous_hash, validity_hours, id, now) ==
    LET evidenceCount == Len(evidence)
        previousScores == IF Len(previousRecords) > 0
                          THEN Last(previousRecords).dimensions ELSE <<>>
        dimensions == computeDimensionScores(clearpath, cognitive, consent, harm,
                                             evidenceCount, previousScores, now)
        overall_score == weightedSum(dimensions, Len(dimensions))
    IN  [id |-> id,
         entity_id |-> eid,
         entity_type |-> etype,
         overall_score |-> overall_score,
         level |-> scoreToLevel(overall_score),
         dimensions |-> dimensions,
         evidence_sources |-> evidence,
         domain_scores |-> <<>>,
         generated_at |-> now,
         valid_until |-> now + validity_hours,
         previous_hash |-> previous_hash,
         hash |-> <<>>]

-----------------------------------------------------------------------------
(* credential.ts *)

\* credentialContentHash without the dimension scores
credentialContentHash_noDimScore(cred) ==
    LET dims == SortSeq([i \in 1..Len(cred.dimensions) |->
                            <<cred.dimensions[i].dimension,
                              cred.dimensions[i].confidence, cred.dimensions[i].trend>>],
                        LAMBDA a, b :
                            LexLess(<<DimRank(a[1]), a[2], TrendRank(a[3])>>,
                                    <<DimRank(b[1]), b[2], TrendRank(b[3])>>))
        domains == domainPayload(cred.domain_scores)
    IN  sha256(<<cred.id, cred.entity_id, cred.overall_score, cred.level, dims,
                 domains, cred.generated_at, cred.valid_until, cred.issuer_id>>)

credentialContentHash(cred) ==
    LET dims == SortSeq([i \in 1..Len(cred.dimensions) |->
                            <<cred.dimensions[i].dimension, cred.dimensions[i].score,
                              cred.dimensions[i].confidence, cred.dimensions[i].trend>>],
                        LAMBDA a, b :
                            LexLess(<<DimRank(a[1]), a[2], a[3], TrendRank(a[4])>>,
                                    <<DimRank(b[1]), b[2], b[3], TrendRank(b[4])>>))
        domains == domainPayload(cred.domain_scores)
    IN  sha256(<<cred.id, cred.entity_id, cred.overall_score, cred.level, dims,
                 domains, cred.generated_at, cred.valid_until, cred.issuer_id>>)

\* generateCredential hashing before the credential's own expiry is set
generateCredential_hashEarly(record, issuer_id, validity_hours, id, now) ==
    LET cred == [id |-> id,
                 entity_id |-> record.entity_id,
                 overall_score |-> record.overall_score,
                 level |-> record.level,
                 dimensions |-> record.dimensions,
                 domain_scores |-> record.domain_scores,
                 generated_at |-> record.generated_at,
                 valid_until |-> record.valid_until,
                 issuer_id |-> issuer_id,
                 verification_hash |-> <<>>]
    IN  [cred EXCEPT !.verification_hash = credentialContentHash(cred),
                     !.valid_until = now + validity_hours]

\* generateCredential stamping the credential with the time of issue
generateCredential_stampNow(record, issuer_id, validity_hours, id, now) ==
    LET cred == [id |-> id,
                 entity_id |-> record.entity_id,
                 overall_score |-> record.overall_score,
                 level |-> record.level,
                 dimensions |-> record.dimensions,
                 domain_scores |-> record.domain_scores,
                 generated_at |-> now,
                 valid_until |-> now + validity_hours,
                 issuer_id |-> issuer_id,
                 verification_hash |-> <<>>]
    IN  [cred EXCEPT !.verification_hash = credentialContentHash(cred)]

\* id and now are the results of generateId() and of Date.now()
generateCredential(record, issuer_id, validity_hours, id, now) ==
    LET cred == [id |-> id,
                 entity_id |-> record.entity_id,
                 overall_score |-> record.overall_score,
                 level |-> record.level,
                 dimensions |-> record.dimensions,
                 domain_scores |-> record.domain_scores,
                 generated_at |-> record.generated_at,
                 valid_until |-> now + validity_hours,
                 issuer_id |-> issuer_id,
                 verification_hash |-> <<>>]
    IN  [cred EXCEPT !.verification_hash = credentialContentHash(cred)]

verifyCredential(credential) ==
    credentialContentHash(credential) = credential.verification_hash

\* an expiry check that counts the last valid instant as expired
isCredentialExpired_inclusive(credential, now) == credential.valid_until <= now

\* now is the reading of the clock
isCredentialExpired(credential, now) == credential.valid_until < now

-----------------------------------------------------------------------------
(* The inputs the callers supply *)

\* the n-th attestation a caller adds: every attestation has its own source
EvidenceAt(n) ==
    [type |-> EvidenceTypes[((n - 1) % Len(EvidenceTypes)) + 1],
     source_id |-> <<SourceName(n)>>,
     timestamp |-> 0,
     weight |-> MulPct(One, 80)]

\* a TrustPolicy without its name and description, which no code reads
PolicyPool ==
    {[id |-> "pol-1", min_score |-> MulPct(One, 40), required_dimensions |-> <<>>,
      required_level |-> "provisional"],
     [id |-> "pol-2", min_score |-> MulPct(One, 90),
      required_dimensions |-> <<[dimension |-> "harm_record", min_score |-> MulPct(One, 80)],
                                [dimension |-> "accuracy", min_score |-> MulPct(One, 60)]>>,
      required_level |-> "high"],
     [id |-> "pol-3", min_score |-> MulPct(One, 40),
      required_dimensions |-> <<[dimension |-> "accuracy", min_score |-> MulPct(One, 60)]>>,
      required_level |-> "established"],
     [id |-> "pol-4", min_score |-> MulPct(One, 60),
      required_dimensions |-> <<[dimension |-> "consent_compliance", min_score |-> One],
                                [dimension |-> "consent_compliance", min_score |-> MulPct(One, 40)]>>,
      required_level |-> "untrusted"]}

MinScores == {MulPct(One, 60)}

TrendDimensions == {<<>>, <<"consent_compliance">>}

ClearpathPool ==
    {[total_traces |-> 10, verification_failures |-> 1,
      assumption_ratio |-> One \div 2, alternatives_considered_avg |-> 2 * One]}

CognitivePool ==
    {[calibration |-> MulPct(One, 90), bias_count |-> 0, growth_trajectory |-> 0,
      consistency |-> MulPct(One, 80)]}

ConsentPool ==
    {[total_actions |-> 100, violations |-> 5, scope_creep_detected |-> FALSE]}

HarmPool ==
    {[total_incidents |-> 10, max_severity |-> MulPct(One, 90),
      remediation_rate |-> MulPct(One, 20)]}

IssuerIds == {"issuer-1"}

ValidityHours == {-1, 0}

-----------------------------------------------------------------------------
(* trust-score.ts: the TrustScore class *)

GENESIS == <<"0">>

\* ret is the record or the credential the last call handed out; a call that
\* returns nothing, or a plain value computed from the history, leaves none
Void == [kind |-> "void"]

Init ==
    /\ entity_id = "e1"
    /\ entity_type = "agent"
    /\ evidence_sources = <<>>
    /\ clearpath_summary = Null
    /\ cognitive_profile = Null
    /\ consent_record = Null
    /\ harm_record = Null
    /\ history = <<>>
    /\ clock = 0
    /\ ret = Void

addEvidence(source) ==
    /\ evidence_sources' = Append(evidence_sources, source)
    /\ ret' = Void
    /\ UNCHANGED <<entity_id, entity_type, clearpath_summary, cognitive_profile,
                   consent_record, harm_record, history, clock>>

addClearpathSummary(summary) ==
    /\ clearpath_summary' = summary
    /\ ret' = Void
    /\ UNCHANGED <<entity_id, entity_type, evidence_sources, cognitive_profile,
                   consent_record, harm_record, history, clock>>

addCognitiveProfile(profile) ==
    /\ cognitive_profile' = profile
    /\ ret' = Void
    /\ UNCHANGED <<entity_id, entity_type, evidence_sources, clearpath_summary,
                   consent_record, harm_record, history, clock>>

addConsentRecord(record) ==
    /\ consent_record' = record
    /\ ret' = Void
    /\ UNCHANGED <<entity_id, entity_type, evidence_sources, clearpath_summary,
                   cognitive_profile, harm_record, history, clock>>

\* an addHarmRecord that adds the new incidents to the ones already reported
addHarmRecord_accumulate(record) ==
    /\ harm_record' =
          IF harm_record = Null THEN record
          ELSE [total_incidents |-> harm_record.total_incidents + record.total_incidents,
                max_severity |-> Max(harm_record.max_severity, record.max_severity),
                remediation_rate |-> record.remediation_rate]
    /\ ret' = Void
    /\ UNCHANGED <<entity_id, entity_type, evidence_sources, clearpath_summary,
                   cognitive_profile, consent_record, history, clock>>

addHarmRecord(record) ==
    /\ harm_record' = record
    /\ ret' = Void
    /\ UNCHANGED <<entity_id, entity_type, evidence_sources, clearpath_summary,
                   cognitive_profile, consent_record, history, clock>>

\* a push that overwrites the latest record
push_overwrite(hist, record) ==
    IF Len(hist) = 0 THEN <<record>> ELSE [hist EXCEPT ![Len(hist)] = record]

\* this.history.push(record)
push(hist, record) == Append(hist, record)

\* a hash over the payload alone, without the link
sealRecord_unchained(record) ==
    [record EXCEPT !.hash = sha256(recordPayload(record))]

\* record.hash = chainHash(record.previous_hash, recordPayload(record))
sealRecord(record) ==
    [record EXCEPT !.hash = chainHash(record.previous_hash, recordPayload(record))]

\* the record recalculate() builds, hashes and pushes
newRecord ==
    LET previous_hash == IF Len(history) = 0 THEN GENESIS ELSE Last(history).hash
    IN  sealRecord(calculateScore(entity_id, entity_type, evidence_sources,
                                  clearpath_summary, cognitive_profile,
                                  consent_record, harm_record, history,
                                  previous_hash, DEFAULT_VALIDITY_HOURS,
                                  generateId(Len(history)), clock))

recalculate ==
    /\ LET record == newRecord
       IN  /\ history' = push(history, record)
           /\ ret' = [kind |-> "record", value |-> record]
    /\ UNCHANGED <<entity_id, entity_type, evidence_sources, clearpath_summary,
                   cognitive_profile, consent_record, harm_record, clock>>

\* calculate() { return this.recalculate(); }
calculate == recalculate

\* a generateCredential that always calculates afresh before it issues
generateCredentialOp_refresh(issuer_id, validity_hours) ==
    LET hist == push(history, newRecord)
        hours == IF validity_hours = <<>> THEN DEFAULT_VALIDITY_HOURS
                 ELSE validity_hours[1]
    IN  /\ history' = hist
        /\ ret' = [kind |-> "credential",
                   value |-> generateCredential(Last(hist), issuer_id, hours,
                                                generateId(Len(hist)), clock)]
        /\ UNCHANGED <<entity_id, entity_type, evidence_sources, clearpath_summary,
                       cognitive_profile, consent_record, harm_record, clock>>

\* validity_hours is <<>> when the caller leaves it out
generateCredentialOp(issuer_id, validity_hours) ==
    LET hist == IF Len(history) > 0 THEN history ELSE push(history, newRecord)
        hours == IF validity_hours = <<>> THEN DEFAULT_VALIDITY_HOURS
                 ELSE validity_hours[1]
    IN  /\ history' = hist
        /\ ret' = [kind |-> "credential",
                   value |-> generateCredential(Last(hist), issuer_id, hours,
                                                generateId(Len(hist)), clock)]
        /\ UNCHANGED <<entity_id, entity_type, evidence_sources, clearpath_summary,
                       cognitive_profile, consent_record, harm_record, clock>>

levelMins ==
    [l \in TrustLevel |->
        CASE l = "untrusted" -> 0
          [] l = "provisional" -> MulPct(One, 20)
          [] l = "basic" -> MulPct(One, 40)
          [] l = "established" -> MulPct(One, 60)
          [] l = "high" -> MulPct(One, 75)
          [] l = "exemplary" -> MulPct(One, 90)]

\* latest.dimensions.find(d => d.dimension === dimension)?.score ?? 0
dimScoreOrZero(record, dimension) ==
    LET found == SelectSeq(record.dimensions, LAMBDA d : d.dimension = dimension)
    IN  IF Len(found) = 0 THEN 0 ELSE found[1].score

\* the failures the loop over policy.required_dimensions pushes, in order
RECURSIVE dimensionFailures(_, _, _)
dimensionFailures(latest, reqs, n) ==
    IF n = 0 THEN <<>>
    ELSE LET req == reqs[n]
             actual == dimScoreOrZero(latest, req.dimension)
             before == dimensionFailures(latest, reqs, n - 1)
         IN  IF actual < req.min_score
             THEN Append(before, [dimension |-> req.dimension,
                                  required |-> req.min_score, actual |-> actual])
             ELSE before

\* the failure list of a check of record latest against policy
policyFailures(latest, policy) ==
    LET scoreFailure ==
            IF latest.overall_score < policy.min_score
            THEN <<[dimension |-> "accuracy", required |-> policy.min_score,
                    actual |-> latest.overall_score]>>
            ELSE <<>>
        requiredMin == IF policy.required_level \in DOMAIN levelMins
                       THEN levelMins[policy.required_level] ELSE 0
        levelFailure ==
            IF /\ latest.overall_score < requiredMin
               /\ latest.level \in DOMAIN levelMins
               /\ levelMins[latest.level] < requiredMin
            THEN <<[dimension |-> "calibration", required |-> requiredMin,
                    actual |-> latest.overall_score]>>
            ELSE <<>>
    IN  scoreFailure \o levelFailure
        \o dimensionFailures(latest, policy.required_dimensions,
                             Len(policy.required_dimensions))

\* checkPolicy returning at the first failure it finds
checkPolicy_shortCircuit(hist, policy, id, now) ==
    IF Len(hist) = 0
    THEN [policy_id |-> policy.id, credential_id |-> "", passed |-> FALSE,
          failures |-> [i \in 1..Len(policy.required_dimensions) |->
                           [dimension |-> policy.required_dimensions[i].dimension,
                            required |-> policy.required_dimensions[i].min_score,
                            actual |-> 0]],
          checked_at |-> now]
    ELSE LET failures == policyFailures(Last(hist), policy)
         IN  [policy_id |-> policy.id, credential_id |-> id,
              passed |-> Len(failures) = 0,
              failures |-> SubSeq(failures, 1, Min(1, Len(failures))),
              checked_at |-> now]

\* checkPolicy reporting no failure on an empty history
checkPolicy_emptyUnreported(hist, policy, id, now) ==
    IF Len(hist) = 0
    THEN [policy_id |-> policy.id, credential_id |-> "", passed |-> FALSE,
          failures |-> <<>>, checked_at |-> now]
    ELSE LET failures == policyFailures(Last(hist), policy)
         IN  [policy_id |-> policy.id, credential_id |-> id,
              passed |-> Len(failures) = 0, failures |-> failures,
              checked_at |-> now]

\* id and now are the results of generateId() and of reading the clock
checkPolicy(hist, policy, id, now) ==
    IF Len(hist) = 0
    THEN [policy_id |-> policy.id,
          credential_id |-> "",
          passed |-> FALSE,
          failures |-> [i \in 1..Len(policy.required_dimensions) |->
                           [dimension |-> policy.required_dimensions[i].dimension,
                            required |-> policy.required_dimensions[i].min_score,
                            actual |-> 0]],
          checked_at |-> now]
    ELSE LET latest == Last(hist)
             cred == generateCredential(latest, "self", DEFAULT_VALIDITY_HOURS, id, now)
             failures == policyFailures(latest, policy)
         IN  [policy_id |-> policy.id,
              credential_id |-> cred.id,
              passed |-> Len(failures) = 0,
              failures |-> failures,
              checked_at |-> now]

checkPolicyOp(policy) ==
    /\ checkPolicy(history, policy, generateId(Len(history)), clock).policy_id = policy.id
    /\ ret' = Void
    /\ UNCHANGED <<entity_id, entity_type, evidence_sources, clearpath_summary,
                   cognitive_profile, consent_record, harm_record, history, clock>>

meetsMinimum(hist, min_score) ==
    IF Len(hist) = 0 THEN FALSE ELSE Last(hist).overall_score >= min_score

meetsMinimumOp(min_score) ==
    /\ meetsMinimum(history, min_score) \in BOOLEAN
    /\ ret' = Void
    /\ UNCHANGED <<entity_id, entity_type, evidence_sources, clearpath_summary,
                   cognitive_profile, consent_record, harm_record, history, clock>>

\* a trend from the first record of the history to the last
getTrend_sinceFirst(hist, dimension) ==
    IF Len(hist) < 2 THEN "stable"
    ELSE LET last == hist[Len(hist)]
             prev == hist[1]
             lastScore == IF dimension # <<>> THEN dimScoreOrZero(last, dimension[1])
                          ELSE last.overall_score
             prevScore == IF dimension # <<>> THEN dimScoreOrZero(prev, dimension[1])
                          ELSE prev.overall_score
             diff == lastScore - prevScore
         IN  IF diff >= MulPct(One, 5) THEN "improving"
             ELSE IF diff <= -MulPct(One, 5) THEN "declining"
             ELSE "stable"

\* dimension is <<>> when the caller leaves it out
getTrend(hist, dimension) ==
    IF Len(hist) < 2 THEN "stable"
    ELSE LET last == hist[Len(hist)]
             prev == hist[Len(hist) - 1]
             lastScore == IF dimension # <<>> THEN dimScoreOrZero(last, dimension[1])
                          ELSE last.overall_score
             prevScore == IF dimension # <<>> THEN dimScoreOrZero(prev, dimension[1])
                          ELSE prev.overall_score
             diff == lastScore - prevScore
         IN  IF diff >= MulPct(One, 5) THEN "improving"
             ELSE IF diff <= -MulPct(One, 5) THEN "declining"
             ELSE "stable"

getTrendOp(dimension) ==
    /\ getTrend(history, dimension) \in DimensionTrend
    /\ ret' = Void
    /\ UNCHANGED <<entity_id, entity_type, evidence_sources, clearpath_summary,
                   cognitive_profile, consent_record, harm_record, history, clock>>

\* the loop of verify(): valid and prev after the first n records
RECURSIVE verifyLoop(_, _)
verifyLoop(hist, n) ==
    IF n = 0 THEN [valid |-> TRUE, prev |-> GENESIS]
    ELSE LET before == verifyLoop(hist, n - 1)
             r == hist[n]
             expected == chainHash(r.previous_hash, recordPayload(r))
         IN  [valid |-> /\ before.valid
                        /\ r.previous_hash = before.prev
                        /\ r.hash = expected,
              prev |-> r.hash]

verify(hist) ==
    [valid |-> verifyLoop(hist, Len(hist)).valid, records_checked |-> Len(hist)]

verifyOp ==
    /\ verify(history).records_checked = Len(history)
    /\ ret' = Void
    /\ UNCHANGED <<entity_id, entity_type, evidence_sources, clearpath_summary,
                   cognitive_profile, consent_record, harm_record, history, clock>>

\* JSON text is the tree of values JSON.stringify writes and JSON.parse reads:
\* a value of the model with its JSON kind. Every number of the model is finite
\* (a NaN or an infinity would be written as null).
jsonNull == <<"null">>

jsonNumber(n) == <<"number", n>>

jsonString(s) == <<"string", s>>

jsonBoolean(b) == <<"boolean", b>>

jsonArray(items) == <<"array", items>>

jsonObject(members) == <<"object", members>>

stringifyEvidence(e) ==
    jsonObject([type |-> jsonString(e.type), source_id |-> jsonString(e.source_id),
                timestamp |-> jsonString(e.timestamp), weight |-> jsonNumber(e.weight)])

stringifyDimension(d) ==
    jsonObject([dimension |-> jsonString(d.dimension), score |-> jsonNumber(d.score),
                confidence |-> jsonNumber(d.confidence),
                evidence_count |-> jsonNumber(d.evidence_count),
                trend |-> jsonString(d.trend),
                last_updated |-> jsonString(d.last_updated)])

stringifyRecord(r) ==
    jsonObject([id |-> jsonString(r.id), entity_id |-> jsonString(r.entity_id),
                entity_type |-> jsonString(r.entity_type),
                overall_score |-> jsonNumber(r.overall_score),
                level |-> jsonString(r.level),
                dimensions |-> jsonArray([i \in 1..Len(r.dimensions) |->
                                             stringifyDimension(r.dimensions[i])]),
                evidence_sources |-> jsonArray([i \in 1..Len(r.evidence_sources) |->
                                             stringifyEvidence(r.evidence_sources[i])]),
                domain_scores |-> jsonObject([k \in DOMAIN r.domain_scores |->
                                                 jsonNumber(r.domain_scores[k])]),
                generated_at |-> jsonString(r.generated_at),
                valid_until |-> jsonString(r.valid_until),
                previous_hash |-> jsonString(r.previous_hash),
                hash |-> jsonString(r.hash)])

stringifyClearpath(c) ==
    IF c = Null THEN jsonNull
    ELSE jsonObject([total_traces |-> jsonNumber(c.total_traces),
                     verification_failures |-> jsonNumber(c.verification_failures),
                     assumption_ratio |-> jsonNumber(c.assumption_ratio),
                     alternatives_considered_avg |->
                         jsonNumber(c.alternatives_considered_avg)])

stringifyCognitive(c) ==
    IF c = Null THEN jsonNull
    ELSE jsonObject([calibration |-> jsonNumber(c.calibration),
                     bias_count |-> jsonNumber(c.bias_count),
                     growth_trajectory |-> jsonNumber(c.growth_trajectory),
                     consistency |-> jsonNumber(c.consistency)])

stringifyConsent(c) ==
    IF c = Null THEN jsonNull
    ELSE jsonObject([total_actions |-> jsonNumber(c.total_actions),
                     violations |-> jsonNumber(c.violations),
                     scope_creep_detected |-> jsonBoolean(c.scope_creep_detected)])

stringifyHarm(h) ==
    IF h = Null THEN jsonNull
    ELSE jsonObject([total_incidents |-> jsonNumber(h.total_incidents),
                     max_severity |-> jsonNumber(h.max_severity),
                     remediation_rate |-> jsonNumber(h.remediation_rate)])

\* JSON.parse
RECURSIVE JSONparse(_)
JSONparse(json) ==
    CASE json[1] = "null" -> Null
      [] json[1] = "array" -> [i \in 1..Len(json[2]) |-> JSONparse(json[2][i])]
      [] json[1] = "object" -> [k \in DOMAIN json[2] |-> JSONparse(json[2][k])]
      [] OTHER -> json[2]

\* the snapshot toJSON() writes for a profile p
toJSON(p) ==
    jsonObject([schema |-> jsonString(schema),
                entity_id |-> jsonString(p.entity_id),
                entity_type |-> jsonString(p.entity_type),
                evidence_sources |-> jsonArray([i \in 1..Len(p.evidence_sources) |->
                                             stringifyEvidence(p.evidence_sources[i])]),
                clearpath_summary |-> stringifyClearpath(p.clearpath_summary),
                cognitive_profile |-> stringifyCognitive(p.cognitive_profile),
                consent_record |-> stringifyConsent(p.consent_record),
                harm_record |-> stringifyHarm(p.harm_record),
                history |-> jsonArray([i \in 1..Len(p.history) |->
                                          stringifyRecord(p.history[i])])])

\* snapshot[field] ?? otherwise, for the object text json
orElse(json, field, otherwise) ==
    IF field \notin DOMAIN json[2] \/ json[2][field][1] = "null" THEN otherwise
    ELSE JSONparse(json[2][field])

\* snapshot.schema !== schema, for the object text json
schemaMismatch(json) ==
    \/ "schema" \notin DOMAIN json[2]
    \/ json[2].schema[1] # "string"
    \/ json[2].schema[2] # schema

Thrown == [kind |-> "error"]

\* fromJSON without the history
fromJSON_noHistory(json) ==
    IF schemaMismatch(json) THEN Thrown
    ELSE [kind |-> "profile",
          entity_id |-> JSONparse(json[2].entity_id),
          entity_type |-> JSONparse(json[2].entity_type),
          evidence_sources |-> orElse(json, "evidence_sources", <<>>),
          clearpath_summary |-> orElse(json, "clearpath_summary", Null),
          cognitive_profile |-> orElse(json, "cognitive_profile", Null),
          consent_record |-> orElse(json, "consent_record", Null),
          harm_record |-> orElse(json, "harm_record", Null),
          history |-> <<>>]

\* fromJSON checking the tag only when the snapshot has one
fromJSON_lenient(json) ==
    IF "schema" \in DOMAIN json[2] /\ schemaMismatch(json) THEN Thrown
    ELSE [kind |-> "profile",
          entity_id |-> JSONparse(json[2].entity_id),
          entity_type |-> JSONparse(json[2].entity_type),
          evidence_sources |-> orElse(json, "evidence_sources", <<>>),
          clearpath_summary |-> orElse(json, "clearpath_summary", Null),
          cognitive_profile |-> orElse(json, "cognitive_profile", Null),
          consent_record |-> orElse(json, "consent_record", Null),
          harm_record |-> orElse(json, "harm_record", Null),
          history |-> orElse(json, "history", <<>>)]

\* fromJSON(json): the profile it returns, or the error it throws
fromJSON(json) ==
    IF schemaMismatch(json) THEN Thrown
    ELSE [kind |-> "profile",
          entity_id |-> JSONparse(json[2].entity_id),
          entity_type |-> JSONparse(json[2].entity_type),
          evidence_sources |-> orElse(json, "evidence_sources", <<>>),
          clearpath_summary |-> orElse(json, "clearpath_summary", Null),
          cognitive_profile |-> orElse(json, "cognitive_profile", Null),
          consent_record |-> orElse(json, "consent_record", Null),
          harm_record |-> orElse(json, "harm_record", Null),
          history |-> orElse(json, "history", <<>>)]

\* the profile as the object this
this ==
    [entity_id |-> entity_id, entity_type |-> entity_type,
     evidence_sources |-> evidence_sources, clearpath_summary |-> clearpath_summary,
     cognitive_profile |-> cognitive_profile, consent_record |-> consent_record,
     harm_record |-> harm_record, history |-> history]

toJSONOp ==
    /\ toJSON(this)[1] = "object"
    /\ ret' = Void
    /\ UNCHANGED <<entity_id, entity_type, evidence_sources, clearpath_summary,
                   cognitive_profile, consent_record, harm_record, history, clock>>

\* the caller goes on with the profile fromJSON returns, or keeps the one it
\* has when fromJSON throws
fromJSONOp(json) ==
    LET ts == fromJSON(json)
    IN  /\ IF ts.kind = "profile"
           THEN /\ entity_id' = ts.entity_id
                /\ entity_type' = ts.entity_type
                /\ evidence_sources' = ts.evidence_sources
                /\ clearpath_summary' = ts.clearpath_summary
                /\ cognitive_profile' = ts.cognitive_profile
                /\ consent_record' = ts.consent_record
                /\ harm_record' = ts.harm_record
                /\ history' = ts.history
           ELSE UNCHANGED <<entity_id, entity_type, evidence_sources,
                            clearpath_summary, cognitive_profile, consent_record,
                            harm_record, history>>
        /\ ret' = Void
        /\ UNCHANGED clock

\* the snapshots handed to fromJSON: the one toJSON wrote, and the same with
\* another schema tag or with none
ForeignTags == {"TSP-2.0", "tsp-1.0"}

retagged(json, tag) == jsonObject([json[2] EXCEPT !.schema = jsonString(tag)])

untagged(json) ==
    jsonObject([k \in DOMAIN json[2] \ {"schema"} |-> json[2][k]])

ForeignSnapshots(json) ==
    {retagged(json, tag) : tag \in ForeignTags}
    \cup {untagged(json), jsonObject([json[2] EXCEPT !.schema = jsonNumber(1)])}

\* the wall clock moves forward
Tick ==
    /\ clock + TickHours <= MaxClock
    /\ clock' = clock + TickHours
    /\ UNCHANGED <<entity_id, entity_type, evidence_sources, clearpath_summary,
                   cognitive_profile, consent_record, harm_record, history, ret>>

\* Evidence and summaries are read only by a calculation: once the history holds
\* MaxHistory records no operation of this specification reads them any more,
\* and it stops supplying them.
Next ==
    \/ /\ Len(history) < MaxHistory
       /\ Len(evidence_sources) < MaxEvidence
       /\ addEvidence(EvidenceAt(Len(evidence_sources) + 1))
    \/ Len(history) < MaxHistory /\ \E summary \in ClearpathPool : addClearpathSummary(summary)
    \/ Len(history) < MaxHistory /\ \E profile \in CognitivePool : addCognitiveProfile(profile)
    \/ Len(history) < MaxHistory /\ \E record \in ConsentPool : addConsentRecord(record)
    \/ Len(history) < MaxHistory /\ \E record \in HarmPool : addHarmRecord(record)
    \/ Len(history) < MaxHistory /\ calculate
    \/ Len(history) < MaxHistory /\ recalculate
    \/ \E issuer_id \in IssuerIds, h \in {<<>>} \cup {<<v>> : v \in ValidityHours} :
          generateCredentialOp(issuer_id, h)
    \/ \E policy \in PolicyPool : checkPolicyOp(policy)
    \/ \E min_score \in MinScores : meetsMinimumOp(min_score)
    \/ \E dimension \in TrendDimensions : getTrendOp(dimension)
    \/ verifyOp
    \/ toJSONOp
    \/ \E json \in {toJSON(this)} \cup ForeignSnapshots(toJSON(this)) : fromJSONOp(json)
    \/ Tick

Spec == Init /\ [][Next]_vars

\* The first calculation of a fresh profile, over summaries of every kind: the
\* best and the worst values, values outside the ranges the fields are meant
\* to have (more failures than traces, negative counts, ratios above 1), and
\* the values of the pools above.
ClearpathValues ==
    ClearpathPool
    \cup {[total_traces |-> 10, verification_failures |-> 0,
           assumption_ratio |-> One, alternatives_considered_avg |-> 5 * One],
          [total_traces |-> 0, verification_failures |-> 3,
           assumption_ratio |-> -(One \div 2), alternatives_considered_avg |-> -(5 * One)],
          [total_traces |-> 10, verification_failures |-> -10,
           assumption_ratio |-> 3 * One, alternatives_considered_avg |-> 50 * One]}

CognitiveValues ==
    CognitivePool
    \cup {[calibration |-> One, bias_count |-> 1, growth_trajectory |-> One,
           consistency |-> One],
          [calibration |-> -(One \div 2), bias_count |-> 2,
           growth_trajectory |-> -(3 * One), consistency |-> 2 * One],
          [calibration |-> 2 * One, bias_count |-> 1, growth_trajectory |-> One,
           consistency |-> -One]}

ConsentValues ==
    ConsentPool
    \cup {[total_actions |-> 10, violations |-> 0, scope_creep_detected |-> FALSE],
          [total_actions |-> 10, violations |-> 10, scope_creep_detected |-> TRUE],
          [total_actions |-> 0, violations |-> 5, scope_creep_detected |-> TRUE],
          [total_actions |-> 10, violations |-> -10, scope_creep_detected |-> FALSE]}

HarmValues ==
    HarmPool
    \cup {[total_incidents |-> 0, max_severity |-> 0, remediation_rate |-> One],
          [total_incidents |-> 10, max_severity |-> 6 * One, remediation_rate |-> 0],
          [total_incidents |-> 100, max_severity |-> 12 * One,
           remediation_rate |-> -One]}

ScoringNext ==
    \/ /\ Len(history) = 0
       /\ Len(evidence_sources) < MaxEvidence
       /\ addEvidence(EvidenceAt(Len(evidence_sources) + 1))
    \/ Len(history) = 0 /\ \E summary \in ClearpathValues : addClearpathSummary(summary)
    \/ Len(history) = 0 /\ \E profile \in CognitiveValues : addCognitiveProfile(profile)
    \/ Len(history) = 0 /\ \E record \in ConsentValues : addConsentRecord(record)
    \/ Len(history) = 0 /\ \E record \in HarmValues : addHarmRecord(record)
    \/ Len(history) = 0 /\ calculate
    \/ \E issuer_id \in IssuerIds : generateCredentialOp(issuer_id, <<>>)

ScoringSpec == Init /\ [][ScoringNext]_vars

\* A profile whose summaries change between calculations, so that the scores
\* of its records rise and fall: up to MaxTrendHistory records, and getTrend for
\* the overall score and for every dimension.
MaxTrendHistory == 3

ConsentTrendPool ==
    ConsentPool
    \cup {[total_actions |-> 10, violations |-> 10, scope_creep_detected |-> TRUE]}

HarmTrendPool ==
    HarmPool
    \cup {[total_incidents |-> 0, max_severity |-> 0, remediation_rate |-> One]}

TrendArguments == {<<>>} \cup {<<d>> : d \in TrustDimension}

TrendNext ==
    \/ Len(history) < MaxTrendHistory /\ \E summary \in ClearpathPool : addClearpathSummary(summary)
    \/ Len(history) < MaxTrendHistory /\ \E record \in ConsentTrendPool : addConsentRecord(record)
    \/ Len(history) < MaxTrendHistory /\ \E record \in HarmTrendPool : addHarmRecord(record)
    \/ Len(history) < MaxTrendHistory /\ calculate
    \/ \E dimension \in TrendArguments : getTrendOp(dimension)

TrendSpec == Init /\ [][TrendNext]_vars

\* A profile whose summaries are replaced by other ones, before and between
\* its calculations: two values for each domain.
ClearpathTrendPool ==
    ClearpathPool
    \cup {[total_traces |-> 10, verification_failures |-> 0,
           assumption_ratio |-> One, alternatives_considered_avg |-> 5 * One]}

CognitiveTrendPool ==
    CognitivePool
    \cup {[calibration |-> One, bias_count |-> 1, growth_trajectory |-> One,
           consistency |-> One]}

OverwriteNext ==
    \/ /\ Len(history) < MaxHistory
       /\ Len(evidence_sources) < MaxEvidence
       /\ addEvidence(EvidenceAt(Len(evidence_sources) + 1))
    \/ Len(history) < MaxHistory /\ \E summary \in ClearpathTrendPool : addClearpathSummary(summary)
    \/ Len(history) < MaxHistory /\ \E profile \in CognitiveTrendPool : addCognitiveProfile(profile)
    \/ Len(history) < MaxHistory /\ \E record \in ConsentTrendPool : addConsentRecord(record)
    \/ Len(history) < MaxHistory /\ \E record \in HarmTrendPool : addHarmRecord(record)
    \/ Len(history) < MaxHistory /\ calculate

OverwriteSpec == Init /\ [][OverwriteNext]_vars

\* A profile that collects attestations of every type, up to
\* MaxConfidenceEvidence of them, and calculates with and without a harm record.
MaxConfidenceEvidence == 52

\* the n-th attestation of a source that reports again and again
EvidenceOfType(n) ==
    [EvidenceAt(1) EXCEPT !.type = EvidenceTypes[((n - 1) % Len(EvidenceTypes)) + 1]]

ConfidenceNext ==
    \/ /\ Len(history) < MaxHistory
       /\ Len(evidence_sources) < MaxConfidenceEvidence
       /\ addEvidence(EvidenceOfType(Len(evidence_sources) + 1))
    \/ Len(history) < MaxHistory /\ \E record \in HarmPool : addHarmRecord(record)
    \/ Len(history) < MaxHistory /\ calculate

ConfidenceSpec == Init /\ [][ConfidenceNext]_vars

-----------------------------------------------------------------------------
(* Alterations of one field of a stored record or of an issued credential,   *)
(* made behind the back of the code                                          *)

\* s with two neighbours, or its two ends, exchanged
Swaps(s) ==
    {[s EXCEPT ![i] = s[(i % Len(s)) + 1], ![(i % Len(s)) + 1] = s[i]] :
        i \in 1..Len(s)} \ {s}

DimensionEntryChanges(d) ==
    {[d EXCEPT !.dimension = x] : x \in {"accuracy", "scope_adherence"} \ {d.dimension}}
    \cup {[d EXCEPT !.score = d.score + 1],
          [d EXCEPT !.confidence = d.confidence + 1],
          [d EXCEPT !.evidence_count = d.evidence_count + 1],
          [d EXCEPT !.last_updated = d.last_updated + 1]}
    \cup {[d EXCEPT !.trend = x] : x \in DimensionTrend \ {d.trend}}

DimensionsChanges(ds) ==
    Swaps(ds)
    \cup UNION {{[ds EXCEPT ![i] = e] : e \in DimensionEntryChanges(ds[i])} :
                    i \in 1..Len(ds)}
    \cup {SubSeq(ds, 1, Len(ds) - 1), Append(ds, ds[1])}

EvidenceEntryChanges(e) ==
    {[e EXCEPT !.type = x] : x \in {"harm_trace", "external_attestation"} \ {e.type}}
    \cup {[e EXCEPT !.source_id = <<SourceName(0)>>],
          [e EXCEPT !.timestamp = e.timestamp + 1],
          [e EXCEPT !.weight = e.weight + 1]}

\* two attestations replaced by one whose source_id spells out the end of the
\* first and the start of the second
MergedEntry(e1, e2) ==
    [type |-> e1.type,
     source_id |-> e1.source_id
                   \o <<":", ToString(e1.timestamp), ":", ToString(e1.weight), ";",
                        e2.type, ":">>
                   \o e2.source_id,
     timestamp |-> e2.timestamp,
     weight |-> e2.weight]

Merges(es) ==
    {SubSeq(es, 1, i - 1) \o <<MergedEntry(es[i], es[i + 1])>>
        \o SubSeq(es, i + 2, Len(es)) : i \in 1..(Len(es) - 1)}

EvidenceChanges(es) ==
    Swaps(es) \cup Merges(es)
    \cup UNION {{[es EXCEPT ![i] = e] : e \in EvidenceEntryChanges(es[i])} :
                    i \in 1..Len(es)}
    \cup {Append(es, EvidenceAt(Len(es) + 1))}
    \cup (IF Len(es) > 0 THEN {SubSeq(es, 1, Len(es) - 1)} ELSE {})

DomainScoresChanges(m) == {[k \in {DomainKeys[1]} |-> One]} \ {m}

ForgedHash == sha256(<<"forged">>)

\* every record that differs from r in exactly one field
RecordChanges(r) ==
    {[r EXCEPT !.id = "forged"], [r EXCEPT !.entity_id = "e2"],
     [r EXCEPT !.overall_score = r.overall_score + 1],
     [r EXCEPT !.generated_at = r.generated_at + 1],
     [r EXCEPT !.valid_until = r.valid_until + 1]}
    \cup {[r EXCEPT !.entity_type = x] : x \in EntityType \ {r.entity_type}}
    \cup {[r EXCEPT !.level = x] : x \in TrustLevel \ {r.level}}
    \cup {[r EXCEPT !.dimensions = x] : x \in DimensionsChanges(r.dimensions)}
    \cup {[r EXCEPT !.evidence_sources = x] : x \in EvidenceChanges(r.evidence_sources)}
    \cup {[r EXCEPT !.domain_scores = x] : x \in DomainScoresChanges(r.domain_scores)}
    \cup {[r EXCEPT !.previous_hash = x] : x \in {GENESIS, ForgedHash, r.hash} \ {r.previous_hash}}
    \cup {[r EXCEPT !.hash = x] : x \in {GENESIS, ForgedHash, r.previous_hash} \ {r.hash}}

\* the alterations of overall_score, level, a dimension score or a timestamp
ScoreOrTimeChanges(c) ==
    {[c EXCEPT !.overall_score = c.overall_score + 1],
     [c EXCEPT !.generated_at = c.generated_at + 1],
     [c EXCEPT !.valid_until = c.valid_until + 1],
     [c EXCEPT !.valid_until = c.valid_until - 1]}
    \cup {[c EXCEPT !.level = x] : x \in TrustLevel \ {c.level}}
    \cup {[c EXCEPT !.dimensions[i].score = c.dimensions[i].score + 1] :
              i \in 1..Len(c.dimensions)}

\* every credential that differs from c in exactly one field other than the hash
CredentialChanges(c) ==
    ScoreOrTimeChanges(c)
    \cup {[c EXCEPT !.id = "forged"], [c EXCEPT !.entity_id = "e2"],
          [c EXCEPT !.issuer_id = "mallory"]}
    \cup {[c EXCEPT !.dimensions = x] : x \in DimensionsChanges(c.dimensions)}
    \cup {[c EXCEPT !.domain_scores = x] : x \in DomainScoresChanges(c.domain_scores)}

ValidityInputs == {<<>>} \cup {<<v>> : v \in ValidityHours}

-----------------------------------------------------------------------------
(* Claims *)

\* C1: after any sequence of controller operations the history is a valid hash
\* chain: the first record links to the genesis sentinel, every later record
\* links to the hash of its predecessor, every hash is chainHash of the link and
\* the record's payload, and verify() returns valid with the number of records.
C1_ChainValid ==
    /\ \A i \in 1..Len(history) :
          /\ history[i].previous_hash =
                 (IF i = 1 THEN GENESIS ELSE history[i - 1].hash)
          /\ history[i].hash =
                 chainHash(history[i].previous_hash, recordPayload(history[i]))
    /\ verify(history) = [valid |-> TRUE, records_checked |-> Len(history)]

C1_Witness ==
    /\ Len(history) = 2
    /\ history[2].previous_hash = history[1].hash
    /\ history[2].hash # history[1].hash
    /\ verify(history) = [valid |-> TRUE, records_checked |-> 2]

\* A history comes into being when a calculation returns its last record: the
\* alterations are tried on it there.
JustCalculated == ret.kind = "record"

\* C2: changing any single field of any one record of the history to a
\* different value makes verify() return valid = false.
C2_AnyFieldChangeDetected ==
    JustCalculated =>
        \A i \in 1..Len(history) :
            \A t \in RecordChanges(history[i]) :
                ~verify([history EXCEPT ![i] = t]).valid

\* C3: a credential issued from any record, for any issuer and any validity
\* window (positive, zero, negative or the default), verifies, and the unmodified
\* credential keeps verifying at every later reading of the clock, expired or not.
C3_IssuedCredentialVerifies ==
    /\ ret.kind = "credential" => verifyCredential(ret.value)
    /\ \A i \in 1..Len(history) : \A issuer \in IssuerIds \cup {"self"} :
          \A hours \in ValidityHours \cup {DEFAULT_VALIDITY_HOURS} :
              verifyCredential(generateCredential(history[i], issuer, hours,
                                                  generateId(Len(history)), clock))

C3_Witness ==
    /\ ret.kind = "credential"
    /\ isCredentialExpired(ret.value, clock)
    /\ ret.value.valid_until >= ret.value.generated_at
    /\ verifyCredential(ret.value)

\* C4: an issued credential whose overall_score, level, one dimension score or a
\* timestamp (generated_at, valid_until) is altered, the verification hash left
\* as issued, does not verify.
C4_ScoreOrTimeChangeDetected ==
    ret.kind = "credential" =>
        \A t \in ScoreOrTimeChanges(ret.value) : ~verifyCredential(t)

C4_Witness ==
    /\ ret.kind = "credential"
    /\ verifyCredential(ret.value)
    /\ ~verifyCredential([ret.value EXCEPT !.overall_score = MulPct(One, 99)])
    /\ ~verifyCredential([ret.value EXCEPT !.dimensions[5].score = @ + 1])

\* C5: the verification hash binds every field of the credential except the hash
\* itself: altering any field, any sub-field of a dimension entry included,
\* makes verifyCredential return false.
C5_EveryFieldBound ==
    ret.kind = "credential" =>
        \A t \in CredentialChanges(ret.value) : ~verifyCredential(t)

\* C6: calculate and recalculate append exactly one record, built from the
\* evidence list and the four summaries as they are at that moment; no operation
\* removes, reorders or changes a record already in the history; the length of
\* the history never decreases.
C6_AppendOnly ==
    [][/\ Len(history') >= Len(history)
       /\ SubSeq(history', 1, Len(history)) = history
       /\ (calculate \/ recalculate) =>
             LET r == Last(history')
             IN  /\ Len(history') = Len(history) + 1
                 /\ r.evidence_sources = evidence_sources
                 /\ \A i \in 1..Len(r.dimensions) :
                       /\ r.dimensions[i].evidence_count = Len(evidence_sources)
                       /\ r.dimensions[i].score =
                              Max(0, Min(One,
                                  computeOneDimension(r.dimensions[i].dimension,
                                      clearpath_summary, cognitive_profile,
                                      consent_record, harm_record)))
                 /\ r.generated_at = clock
                 /\ ret'.value = r]_vars

C6_Witness ==
    /\ Len(history) = 2
    /\ Len(history[1].evidence_sources) < Len(history[2].evidence_sources)
    /\ history[1].dimensions[4].score # history[2].dimensions[4].score
    /\ history[1].overall_score # history[2].overall_score

\* C7: generateCredential never issues a credential without a record: on an
\* empty history it first performs exactly one calculation, otherwise none, and
\* the credential's entity_id, overall_score, level, dimension scores and
\* generated_at are those of the last record of the history when it returns.
C7_CredentialFromLastRecord ==
    [][\A issuer \in IssuerIds : \A h \in ValidityInputs :
          generateCredentialOp(issuer, h) =>
              LET c == ret'.value
                  r == Last(history')
              IN  /\ Len(history') = (IF Len(history) = 0 THEN 1 ELSE Len(history))
                  /\ Len(history) > 0 => history' = history
                  /\ ret'.kind = "credential"
                  /\ c.entity_id = r.entity_id
                  /\ c.overall_score = r.overall_score
                  /\ c.level = r.level
                  /\ Len(c.dimensions) = Len(r.dimensions)
                  /\ \A i \in 1..Len(r.dimensions) :
                        /\ c.dimensions[i].dimension = r.dimensions[i].dimension
                        /\ c.dimensions[i].score = r.dimensions[i].score
                  /\ c.generated_at = r.generated_at]_vars

C7_Witness ==
    /\ ret.kind = "credential"
    /\ Len(history) = 1
    /\ Len(evidence_sources) = Len(history[1].evidence_sources)
    /\ clock > history[1].generated_at
    /\ ret.value.generated_at = history[1].generated_at
    /\ ret.value.overall_score = history[1].overall_score

\* the floors of the trust levels, as the claim lists them
LevelFloor(level) ==
    CASE level = "untrusted" -> 0
      [] level = "provisional" -> 200000
      [] level = "basic" -> 400000
      [] level = "established" -> 600000
      [] level = "high" -> 750000
      [] level = "exemplary" -> 900000

\* the score of the entry of record r for dimension dim
ScoreOf(r, dim) ==
    r.dimensions[CHOOSE i \in 1..Len(r.dimensions) : r.dimensions[i].dimension = dim].score

\* the requirements of policy that record r misses, as failure entries
ScoreMiss(r, policy) ==
    IF r.overall_score < policy.min_score
    THEN {[required |-> policy.min_score, actual |-> r.overall_score]} ELSE {}

LevelMiss(r, policy) ==
    IF r.overall_score < LevelFloor(policy.required_level)
    THEN {[required |-> LevelFloor(policy.required_level), actual |-> r.overall_score]}
    ELSE {}

DimensionMisses(r, policy) ==
    {i \in 1..Len(policy.required_dimensions) :
        ScoreOf(r, policy.required_dimensions[i].dimension)
            < policy.required_dimensions[i].min_score}

\* C8: with at least one record, checkPolicy lists one failure when the latest
\* overall score is below policy.min_score, one when it is below the floor of
\* policy.required_level, and one for each required dimension whose score in the
\* latest record is below its minimum: nothing unmet is left out, nothing met
\* is listed.
C8_AllFailuresCollected ==
    Len(history) > 0 =>
        \A policy \in PolicyPool :
            LET latest == Last(history)
                f == checkPolicy(history, policy, generateId(Len(history)), clock).failures
                nScore == Cardinality(ScoreMiss(latest, policy))
                nLevel == Cardinality(LevelMiss(latest, policy))
                reqs == policy.required_dimensions
                missed == DimensionMisses(latest, policy)
                order == SelectSeq([i \in 1..Len(reqs) |-> i], LAMBDA i : i \in missed)
            IN  /\ Len(f) = nScore + nLevel + Cardinality(missed)
                /\ nScore = 1 =>
                      [required |-> f[1].required, actual |-> f[1].actual]
                          \in ScoreMiss(latest, policy)
                /\ nLevel = 1 =>
                      [required |-> f[nScore + 1].required,
                       actual |-> f[nScore + 1].actual] \in LevelMiss(latest, policy)
                /\ \A k \in 1..Len(order) :
                      f[nScore + nLevel + k] =
                          [dimension |-> reqs[order[k]].dimension,
                           required |-> reqs[order[k]].min_score,
                           actual |-> ScoreOf(latest, reqs[order[k]].dimension)]

C8_Witness ==
    /\ Len(history) > 0
    /\ \E policy \in PolicyPool :
          LET c == checkPolicy(history, policy, generateId(Len(history)), clock)
          IN  /\ Len(policy.required_dimensions) = 2
              /\ Len(c.failures) = 4
    /\ \E policy \in PolicyPool :
          LET c == checkPolicy(history, policy, generateId(Len(history)), clock)
          IN  /\ Cardinality(ScoreMiss(Last(history), policy)) = 0
              /\ Cardinality(LevelMiss(Last(history), policy)) = 1
              /\ Len(c.failures) = 1 + Cardinality(DimensionMisses(Last(history), policy))
    /\ \E policy \in PolicyPool :
          LET c == checkPolicy(history, policy, generateId(Len(history)), clock)
          IN  /\ Len(policy.required_dimensions) = 2
              /\ Cardinality(DimensionMisses(Last(history), policy)) = 1

\* C9: for every profile state, an empty history included, and every policy the
\* result of checkPolicy has passed = (failures.length = 0).
C9_PassedIffNoFailures ==
    \A policy \in PolicyPool :
        LET c == checkPolicy(history, policy, generateId(Len(history)), clock)
        IN  c.passed <=> Len(c.failures) = 0

\* C10: on an empty history checkPolicy returns passed = false, an empty
\* credential_id and one failure per required dimension, with required that
\* dimension's minimum and actual 0; it calculates nothing: the history stays
\* empty.
C10_EmptyHistoryReport ==
    /\ [](Len(history) = 0 =>
            \A policy \in PolicyPool :
                LET c == checkPolicy(history, policy, generateId(Len(history)), clock)
                    reqs == policy.required_dimensions
                IN  /\ c.passed = FALSE
                    /\ c.credential_id = ""
                    /\ c.policy_id = policy.id
                    /\ Len(c.failures) = Len(reqs)
                    /\ \A i \in 1..Len(reqs) :
                          c.failures[i] = [dimension |-> reqs[i].dimension,
                                           required |-> reqs[i].min_score,
                                           actual |-> 0])
    /\ [][history' # history =>
             \A policy \in PolicyPool : ~checkPolicyOp(policy)]_vars

C10_Witness ==
    /\ Len(history) = 0
    /\ harm_record # Null
    /\ clock > 0
    /\ \E policy \in PolicyPool :
          LET c == checkPolicy(history, policy, generateId(Len(history)), clock)
          IN  /\ Len(c.failures) = 2
              /\ c.failures[1].actual = 0
              /\ ~c.passed

\* the record a calculation on profile p builds at time now
CalculatedFrom(p, now) ==
    sealRecord(calculateScore(p.entity_id, p.entity_type, p.evidence_sources,
                              p.clearpath_summary, p.cognitive_profile,
                              p.consent_record, p.harm_record, p.history,
                              IF Len(p.history) = 0 THEN GENESIS
                              ELSE Last(p.history).hash,
                              DEFAULT_VALIDITY_HOURS, generateId(Len(p.history)), now))

\* C11: fromJSON(toJSON(p)) has the entity id and type, the evidence list, the
\* four summary slots and the history of p; verify() gives the same result on
\* it as on p, which is valid, and a calculation on it links to its last
\* record, so that the chain stays valid.
C11_RoundTrip ==
    LET ts == fromJSON(toJSON(this))
    IN  /\ ts.kind = "profile"
        /\ ts.entity_id = entity_id
        /\ ts.entity_type = entity_type
        /\ ts.evidence_sources = evidence_sources
        /\ ts.clearpath_summary = clearpath_summary
        /\ ts.cognitive_profile = cognitive_profile
        /\ ts.consent_record = consent_record
        /\ ts.harm_record = harm_record
        /\ ts.history = history
        /\ verify(ts.history) = verify(history)
        /\ verify(ts.history).valid
        /\ LET record == CalculatedFrom(ts, clock)
           IN  /\ Len(history) > 0 => record.previous_hash = Last(history).hash
               /\ verify(push(ts.history, record)).valid

C11_Witness ==
    /\ Len(history) = 2
    /\ Len(evidence_sources) = 2
    /\ clearpath_summary # Null
    /\ harm_record = Null
    /\ fromJSON(toJSON(this)).history = history
    /\ fromJSON(toJSON(this)).clearpath_summary = clearpath_summary

\* C12: fromJSON throws on every snapshot whose schema tag is not exactly
\* "TSP-1.0", a snapshot without a tag included: it returns no profile and
\* loads no field of the snapshot.
C12_ForeignSchemaRejected ==
    \A json \in ForeignSnapshots(toJSON(this)) : fromJSON(json) = Thrown

C12_Witness ==
    /\ Len(history) > 0
    /\ fromJSON(toJSON(this)).kind = "profile"
    /\ fromJSON(untagged(toJSON(this))) = Thrown
    /\ \E tag \in ForeignTags : fromJSON(retagged(toJSON(this), tag)) = Thrown

\* the times at which a credential issued at time from is looked at again
LaterTimes(from) == from..(from + DEFAULT_VALIDITY_HOURS + TickHours)

\* C13: with a clock that only moves forward, a credential issued with a
\* negative validity window has valid_until before its issue time and is
\* expired at issuance and at every later time; one issued with a positive
\* window is not expired at any time up to and including valid_until and is
\* expired at every time after it.  A step that hands out a credential issues
\* it at the current clock reading with one of the windows.
C13_ExpiryFollowsWindow ==
    [][(ret'.kind = "credential" /\ ret' # ret) =>
          \E issuer \in IssuerIds : \E h \in ValidityInputs :
              LET c == ret'.value
                  hours == IF h = <<>> THEN DEFAULT_VALIDITY_HOURS ELSE h[1]
              IN  /\ c = generateCredential(Last(history'), issuer, hours, c.id, clock)
                  /\ hours < 0 =>
                        /\ c.valid_until < clock
                        /\ \A t \in LaterTimes(clock) : isCredentialExpired(c, t)
                  /\ hours > 0 =>
                        /\ c.valid_until > clock
                        /\ \A t \in LaterTimes(clock) :
                              isCredentialExpired(c, t) <=> t > c.valid_until]_vars

C13_Witness ==
    /\ ret.kind = "credential"
    /\ ret.value.valid_until = DEFAULT_VALIDITY_HOURS
    /\ clock > ret.value.valid_until
    /\ isCredentialExpired(ret.value, clock)
    /\ ~isCredentialExpired(ret.value, ret.value.valid_until)

\* the eight dimensions in the order the claim lists them
EightDimensions ==
    <<"accuracy", "consistency", "transparency", "consent_compliance",
      "harm_record", "bias_awareness", "calibration", "scope_adherence">>

\* C14: every record a calculation produces, whatever summaries are present
\* and whatever their values, has exactly eight dimension entries, one for each
\* dimension in the fixed order, and every score and confidence lies in [0,1].
C14_EightDimensionsInRange ==
    \A i \in 1..Len(history) :
        LET ds == history[i].dimensions
        IN  /\ Len(ds) = 8
            /\ \A k \in 1..8 :
                  /\ ds[k].dimension = EightDimensions[k]
                  /\ ds[k].score >= 0 /\ ds[k].score <= One
                  /\ ds[k].confidence >= 0 /\ ds[k].confidence <= One

C14_Witness ==
    /\ Len(history) = 1
    /\ clearpath_summary # Null
    /\ clearpath_summary.verification_failures > clearpath_summary.total_traces
    /\ cognitive_profile # Null /\ cognitive_profile.consistency > One
    /\ harm_record = Null
    /\ computeOneDimension("accuracy", clearpath_summary, cognitive_profile,
                           consent_record, harm_record) < 0
    /\ ScoreOf(history[1], "accuracy") = 0
    /\ ScoreOf(history[1], "consistency") = One
    /\ history[1].dimensions[1].confidence > 0

LevelCeiling(level) ==
    CASE level = "untrusted" -> 200000
      [] level = "provisional" -> 400000
      [] level = "basic" -> 600000
      [] level = "established" -> 750000
      [] level = "high" -> 900000
      [] level = "exemplary" -> One + 1

\* the level whose interval holds score
LevelOfScore(score) ==
    CHOOSE level \in TrustLevel : LevelFloor(level) <= score /\ score < LevelCeiling(level)

\* the place of a level in the order untrusted < ... < exemplary
LevelRank(level) ==
    CASE level = "untrusted" -> 1
      [] level = "provisional" -> 2
      [] level = "basic" -> 3
      [] level = "established" -> 4
      [] level = "high" -> 5
      [] level = "exemplary" -> 6

\* the floors, the scores next to them, the ends of the scale and the overall
\* scores of the records of the history
ScoreGrid ==
    {0, One}
    \cup UNION {{(LevelFloor(l) - 1), LevelFloor(l), (LevelFloor(l) + 1)} : l \in TrustLevel \ {"untrusted"}}
    \cup {history[i].overall_score : i \in 1..Len(history)}

\* C16: the level of every record of the history, and of every credential
\* issued from its last record, is the level whose interval (untrusted [0,0.2),
\* provisional [0.2,0.4), basic [0.4,0.6), established [0.6,0.75), high
\* [0.75,0.9), exemplary [0.9,1.0]) holds the record's overall_score; and
\* scoreToLevel never maps a higher score to a lower level.
C16_LevelFromThresholds ==
    /\ \A i \in 1..Len(history) :
          history[i].level = LevelOfScore(history[i].overall_score)
    /\ ret.kind = "credential" =>
          /\ ret.value.overall_score = Last(history).overall_score
          /\ ret.value.level = LevelOfScore(ret.value.overall_score)
    /\ \A a \in ScoreGrid : \A b \in ScoreGrid :
          /\ scoreToLevel(a) = LevelOfScore(a)
          /\ a <= b => LevelRank(scoreToLevel(a)) <= LevelRank(scoreToLevel(b))

C16_Witness ==
    /\ ret.kind = "credential"
    /\ ret.value.level = "high"
    /\ ret.value.overall_score >= 750000
    /\ ret.value.overall_score < 900000
    /\ history[1].level = "high"

\* the scores of dimension dim in the records before the i-th record of hist
PriorScores(hist, i, dim) == [j \in 1..(i - 1) |-> ScoreOf(hist[j], dim)]

\* the trend the claim gives a score after the prior scores of its dimension:
\* the score against the mean of the last up to three of them
TrendAgainstMean(score, prior) ==
    LET recent == SubSeq(prior, Max(1, Len(prior) - 2), Len(prior))
        n == Len(recent)
    IN  IF Len(prior) < 2 THEN "stable"
        ELSE IF n * score - sumScores(recent, n) >= n * 50000 THEN "improving"
        ELSE IF n * score - sumScores(recent, n) <= -(n * 50000) THEN "declining"
        ELSE "stable"

\* C17: in every record a calculation produced, the trend of each dimension is
\* the comparison of its score with the mean of the same dimension's scores in
\* the last up to three prior records of the history: improving at +0.05 or
\* more, declining at -0.05 or less, otherwise stable, and stable when there
\* are fewer than two prior records.
C17_TrendAgainstPriorMean ==
    \A i \in 1..Len(history) : \A k \in 1..Len(history[i].dimensions) :
        LET d == history[i].dimensions[k]
        IN  d.trend = TrendAgainstMean(d.score, PriorScores(history, i, d.dimension))

\* the value getTrend looks at in record r: the overall score, or the score of
\* the named dimension
TrendValue(r, dimension) ==
    IF dimension = <<>> THEN r.overall_score ELSE ScoreOf(r, dimension[1])

\* the trend from value previous to value last, as the claim states it
TrendBetween(previous, last) ==
    IF last - previous >= 50000 THEN "improving"
    ELSE IF last - previous <= -50000 THEN "declining"
    ELSE "stable"

\* histories that end with the last two records of hist and differ before them:
\* no older record, or one or two records of hist in any order
OtherPasts(hist) ==
    LET lastTwo == SubSeq(hist, Len(hist) - 1, Len(hist))
    IN  {lastTwo}
        \cup {<<hist[i]>> \o lastTwo : i \in 1..Len(hist)}
        \cup {<<hist[i], hist[j]>> \o lastTwo : i, j \in 1..Len(hist)}

\* C18: getTrend() and getTrend(dimension) are stable on a history of fewer
\* than two records, and otherwise the comparison of the last record with the
\* one before it (overall_score, or the named dimension's score): improving at
\* +0.05 or more, declining at -0.05 or less, otherwise stable; the result is
\* the same on every history that ends with the same two records.
C18_TrendFromLastTwo ==
    \A dimension \in TrendArguments :
        /\ Len(history) < 2 => getTrend(history, dimension) = "stable"
        /\ Len(history) >= 2 =>
              /\ getTrend(history, dimension) =
                    TrendBetween(TrendValue(history[Len(history) - 1], dimension),
                                 TrendValue(history[Len(history)], dimension))
              /\ \A other \in OtherPasts(history) :
                    getTrend(other, dimension) = getTrend(history, dimension)

C18_Witness ==
    /\ Len(history) = 3
    /\ ret = Void
    /\ getTrend(SubSeq(history, 1, 2), <<>>) = "improving"
    /\ getTrend(history, <<>>) = "declining"
    /\ getTrend(history, <<"harm_record">>) = "improving"
    /\ getTrend(history, <<"accuracy">>) = "stable"

\* what the claim is about in a record: its eight dimension scores, its overall
\* score and its level
Outcome(r) ==
    [scores |-> [k \in 1..Len(r.dimensions) |-> r.dimensions[k].score],
     overall_score |-> r.overall_score,
     level |-> r.level]

\* the first record of another profile (another entity, no evidence, no earlier
\* summaries, no history, another time) that holds the four given summaries
FreshRecord(clearpath, cognitive, consent, harm) ==
    calculateScore("e2", "human", <<>>, clearpath, cognitive, consent, harm,
                   <<>>, GENESIS, DEFAULT_VALIDITY_HOURS, generateId(0), MaxClock)

\* C19: supplying a summary replaces the one slot of its domain by the supplied
\* value and touches no other slot and no record; the dimension scores, the
\* overall score and the level of the record a calculation appends are those
\* of a fresh profile that was given the four current summaries only: they do
\* not depend on summaries supplied and overwritten earlier, on the order in
\* which the domains were supplied, on the evidence list or on earlier
\* records.
C19_OverwriteLatest ==
    [][/\ clearpath_summary' # clearpath_summary =>
             /\ clearpath_summary' \in ClearpathTrendPool
             /\ UNCHANGED <<cognitive_profile, consent_record, harm_record, history>>
       /\ cognitive_profile' # cognitive_profile =>
             /\ cognitive_profile' \in CognitiveTrendPool
             /\ UNCHANGED <<clearpath_summary, consent_record, harm_record, history>>
       /\ consent_record' # consent_record =>
             /\ consent_record' \in ConsentTrendPool
             /\ UNCHANGED <<clearpath_summary, cognitive_profile, harm_record, history>>
       /\ harm_record' # harm_record =>
             /\ harm_record' \in HarmTrendPool
             /\ UNCHANGED <<clearpath_summary, cognitive_profile, consent_record, history>>
       /\ history' # history =>
             /\ Len(history') = Len(history) + 1
             /\ Outcome(Last(history')) =
                   Outcome(FreshRecord(clearpath_summary, cognitive_profile,
                                       consent_record, harm_record))]_vars

C19_Witness ==
    /\ Len(history) = 2
    /\ Len(history[2].evidence_sources) = 2
    /\ \A dim \in {"accuracy", "consistency", "consent_compliance", "harm_record"} :
          /\ ScoreOf(history[1], dim) # 500000
          /\ ScoreOf(history[1], dim) # ScoreOf(history[2], dim)
    /\ history[1].level # history[2].level
    /\ Outcome(history[2]) = Outcome(FreshRecord(clearpath_summary, cognitive_profile,
                                                 consent_record, harm_record))
    /\ Outcome(history[1]) # Outcome(history[2])

\* the neutral default score, 0.5
Neutral == 500000

\* no summary of any domain has been supplied
NoSummaries ==
    /\ clearpath_summary = Null
    /\ cognitive_profile = Null
    /\ consent_record = Null
    /\ harm_record = Null

\* C20: in the record a calculation appends, a dimension whose summary is
\* absent scores 0.5: accuracy and transparency without a trace summary,
\* whether or not a reasoning profile is present; consistency, bias_awareness
\* and calibration without a reasoning profile; consent_compliance without a
\* consent record; harm_record without a harm record; scope_adherence with
\* neither a consent record nor a trace summary.  A profile without any summary
\* can always be calculated, and its record has eight scores of 0.5, the overall
\* score 0.5 and the level basic.
C20_NeutralDefaults ==
    /\ [](NoSummaries => ENABLED calculate)
    /\ [][history' # history =>
            LET r == Last(history')
            IN  /\ clearpath_summary = Null =>
                      /\ ScoreOf(r, "accuracy") = Neutral
                      /\ ScoreOf(r, "transparency") = Neutral
                /\ cognitive_profile = Null =>
                      /\ ScoreOf(r, "consistency") = Neutral
                      /\ ScoreOf(r, "bias_awareness") = Neutral
                      /\ ScoreOf(r, "calibration") = Neutral
                /\ consent_record = Null => ScoreOf(r, "consent_compliance") = Neutral
                /\ harm_record = Null => ScoreOf(r, "harm_record") = Neutral
                /\ (consent_record = Null /\ clearpath_summary = Null) =>
                      ScoreOf(r, "scope_adherence") = Neutral
                /\ NoSummaries =>
                      /\ Len(r.dimensions) = 8
                      /\ \A k \in 1..8 : r.dimensions[k].score = Neutral
                      /\ r.overall_score = Neutral
                      /\ r.level = "basic"]_vars

C20_Witness ==
    /\ Len(history) = 1
    /\ ret.kind = "record"
    /\ clearpath_summary = Null
    /\ cognitive_profile # Null
    /\ cognitive_profile.calibration = One
    /\ consent_record = Null
    /\ harm_record # Null
    /\ ScoreOf(history[1], "accuracy") = Neutral
    /\ ScoreOf(history[1], "transparency") = Neutral
    /\ ScoreOf(history[1], "scope_adherence") = Neutral
    /\ ScoreOf(history[1], "calibration") = One
    /\ ScoreOf(history[1], "harm_record") # Neutral

\* the confidence the claim gives a count of evidence sources
StepConfidence(count) ==
    IF count = 0 THEN 0
    ELSE IF count \in 1..5 THEN 300000
    ELSE IF count \in 6..20 THEN 600000
    ELSE IF count \in 21..50 THEN 800000
    ELSE 950000

\* C21: a calculation gives each of the eight dimension entries of its record
\* the number of evidence sources the profile holds at that moment as
\* evidence_count, whatever their types and whichever summaries are present,
\* and the confidence of the step function of that count (0 gives 0, 1 to 5
\* gives 0.3, 6 to 20 gives 0.6, 21 to 50 gives 0.8, more gives 0.95): the
\* confidence is the same in the eight entries of a record and never decreases
\* from one record of the history to the next.
C21_ConfidenceFromEvidenceCount ==
    /\ [](\A i \in 1..Len(history) : \A k \in 1..Len(history[i].dimensions) :
             LET d == history[i].dimensions[k]
             IN  /\ Len(history[i].dimensions) = 8
                 /\ d.evidence_count = Len(history[i].evidence_sources)
                 /\ d.confidence = StepConfidence(d.evidence_count)
                 /\ d.confidence = history[i].dimensions[1].confidence
                 /\ i > 1 => d.confidence >= history[i - 1].dimensions[k].confidence)
    /\ [][history' # history =>
             /\ Last(history').evidence_sources = evidence_sources
             /\ \A k \in 1..Len(Last(history').dimensions) :
                   Last(history').dimensions[k].evidence_count = Len(evidence_sources)]_vars

C21_Witness ==
    /\ Len(history) = 2
    /\ harm_record # Null
    /\ ScoreOf(history[1], "harm_record") = Neutral
    /\ Len(history[1].evidence_sources) = 5
    /\ history[1].dimensions[8].confidence = 300000
    /\ Len(history[2].evidence_sources) = 51
    /\ history[2].dimensions[8].evidence_count = 51
    /\ history[2].dimensions[8].confidence = 950000
    /\ \E i, j \in 1..51 : history[2].evidence_sources[i].type # history[2].evidence_sources[j].type

====
